---- MODULE Spec2Model ----
(***************************************************************************)
(* Model of src/app.py: the /chat handler's provider rotation, health      *)
(* tracking, retry loop and image tool-call protocol.                      *)
(*                                                                         *)
(* Each request slot runs chat().  A step of a request runs the handler    *)
(* from one access to shared state or one blocking upstream call to the    *)
(* next: entering the handler, next(provider_cycle), the attempted/health   *)
(* check that issues the first upstream call, and the handling of each     *)
(* upstream response.  A 200 whose body cannot be read takes two steps:     *)
(* the reset of the count when the status is seen, and the increment in    *)
(* the except clause.  In-place updates of provider_health (x += w) are    *)
(* taken as single steps (CPython >= 3.10 does not switch threads inside   *)
(* one; the str | None annotation needs 3.10).  GET /health writes nothing *)
(* and is the operator health_route.                                       *)
(***************************************************************************)
EXTENDS Integers, Sequences, FiniteSets, TLC

\* ------------------------------------------------------------------ bounds
NumRequests == 2      \* Spec: request slots handled concurrently
ConcProviders == 2    \* Spec: keys may be set for the first ConcProviders candidates
DataProviders == 2    \* SpecData: keys may be set for the first DataProviders candidates
MaxMsgLen == 2        \* SpecData: characters in the user message
MaxHist == 2          \* SpecData: turns of history a request carries
MaxPromptLen == 3     \* SpecImage: characters in a tool prompt
MaxSeed == 2          \* seeds drawn from 1..MaxSeed (the code: 1..9999)
MaxFailures == 6      \* failed calls stop once a count would pass this
                      \* (the except clause may still add one)

\* --------------------------------------------------------- program constants
MaxAttempts == 3          \* range(min(3, len(PROVIDERS)))
UnhealthyThreshold == 5   \* failures > 5 is skipped
HealthQueryLimit == 3     \* /health: failures < 3
OK == 200
BadRequest == 400

\* The four candidate providers in configuration order.
Candidates == <<"Groq", "OpenRouter", "Together", "DeepSeek">>

None == "None"

\* default_model of each provider with the environment's defaults
default_model(name) ==
    CASE name = "Groq" -> "llama3-70b-8192"
      [] name = "OpenRouter" -> "meta-llama/llama-3.3-70b-instruct:free"
      [] name = "Together" -> "meta-llama/Llama-3.3-70B-Instruct-Turbo-Free"
      [] name = "DeepSeek" -> "deepseek-chat"

\* "free" in provider["default_model"].lower()
IsFreeModel(name) == name \in {"OpenRouter", "Together"}

supports_tools(name) == TRUE

\* PROVIDERS        the registry: names of the configured providers, in order
\* provider_cycle   itertools.cycle(PROVIDERS): index of the provider next() returns
\* provider_health  provider name -> its "failures" count
\* req              request slot -> the locals of its chat() call
\* window           the providers the last N calls of next() returned
\* image_log        SpecImage only: the calls of generate_image made so far
VARIABLES PROVIDERS, provider_cycle, provider_health, req, window, image_log

vars == <<PROVIDERS, provider_cycle, provider_health, req, window, image_log>>

N == Len(PROVIDERS)
Names == {PROVIDERS[i] : i \in 1..N}

\* ------------------------------------------------------------ pure helpers
Min(a, b) == IF a < b THEN a ELSE b

Chars == {" ", "a"}

RECURSIVE SeqsUpTo(_, _)
SeqsUpTo(S, n) ==
    IF n = 0 THEN {<<>>}
    ELSE LET shorter == SeqsUpTo(S, n - 1)
         IN shorter \cup {Append(s, c) : s \in {t \in shorter : Len(t) = n - 1}, c \in S}

RECURSIVE lstrip(_)
lstrip(s) == IF s # <<>> /\ Head(s) = " " THEN lstrip(Tail(s)) ELSE s

RECURSIVE rstrip(_)
rstrip(s) ==
    IF s # <<>> /\ s[Len(s)] = " " THEN rstrip(SubSeq(s, 1, Len(s) - 1)) ELSE s

no_strip(s) == s

\* str.strip()
strip(s) == rstrip(lstrip(s))

RECURSIVE quote_plus(_)
quote_plus(s) ==
    IF s = <<>> THEN <<>>
    ELSE (IF Head(s) = " " THEN <<"+">> ELSE <<Head(s)>>) \o quote_plus(Tail(s))

\* requests.utils.quote: urllib.parse.quote with safe="/": a space becomes %20
RECURSIVE quote(_)
quote(s) ==
    IF s = <<>> THEN <<>>
    ELSE (IF Head(s) = " " THEN <<"%", "2", "0">> ELSE <<Head(s)>>) \o quote(Tail(s))

BaseUrl == "https://image.pollinations.ai/prompt/"
RenderParams == "?width=1024&height=1024&nologo=true&enhance=true&seed="

Seeds == 1..MaxSeed

\* generate_image(prompt) with the value random.randint(1, 9999) returned
generate_image(prompt, seed) ==
    [base |-> BaseUrl, encoded |-> quote(strip(prompt)), params |-> RenderParams,
     seed |-> seed]

FallbackText == "Clinton Tech AI - Creative Mode"
PromptForInput == "Please type a message."

NoImage == [base |-> None, encoded |-> <<>>, params |-> None, seed |-> 0]

\* jsonify(...) with its status: the reply text and the image URL embedded in it
Reply(code, text, image) == [code |-> code, reply |-> text, image |-> image]

fallback_unavailable == <<"AI unavailable">>

fallback_response == <<FallbackText>>

\* A conversation turn: content is a sequence of characters or tokens,
\* <<None>> for a null content; image is the URL a tool turn's content holds.
Turn(role, content) ==
    [role |-> role, content |-> content, tool_calls |-> <<>>, tool_call_id |-> None,
     image |-> NoImage]

SYSTEM_MESSAGE == Turn("system", <<"SYSTEM">>)

\* The history a client may send: K alternating user/assistant turns, the k-th
\* with a content of k characters, so that no two turns of a history are equal.
HistoryTurn(k) ==
    Turn(IF k % 2 = 1 THEN "user" ELSE "assistant", [i \in 1..k |-> "h"])
History(K) == [k \in 1..K |-> HistoryTurn(k)]
Histories(maxK) == {History(K) : K \in 0..maxK}

Contents == {<<"Hello!">>, <<"Hi">>}

\* prepare_payload(provider, messages, include_tools)
prepare_payload(name, messages, include_tools) ==
    [provider |-> name,
     model |-> default_model(name),
     messages |-> messages,
     tools |-> include_tools /\ supports_tools(name)
               /\ ~(name = "Together" /\ IsFreeModel(name)),
     max_tokens |-> IF name = "Groq" THEN 1024 ELSE 2048]

NoPayload ==
    [provider |-> None, model |-> None, messages |-> <<>>, tools |-> FALSE, max_tokens |-> 0]


\* ------------------------------------------------------- upstream responses
\* A tool invocation of a completion: upstream-assigned id, tool name, and the
\* prompt of its JSON arguments (<<>> when missing or empty).
ToolCalls(prompts) ==
    [id : {"call_1"}, name : {"generate_image", "other_tool"}, prompt : prompts]

\* response.json() of a 200: shape "ok" has choices[0].message; "nochoices" has
\* no choices; "malformed" raises when read (no JSON, no message, ...).
Bodies(prompts, contents) ==
    [shape : {"ok"}, content : contents, tool_calls : {<<>>}]
      \cup [shape : {"ok"}, content : {<<None>>},
            tool_calls : {<<tc>> : tc \in ToolCalls(prompts)}]
      \cup [shape : {"nochoices", "malformed"}, content : {<<None>>}, tool_calls : {<<>>}]

NoBody == [shape |-> "malformed", content |-> <<None>>, tool_calls |-> <<>>]

\* No response received yet.
NoResponse == [exc |-> None, status |-> 0, body |-> NoBody]

\* What requests.post ends with: a 200 with one of `bodies`, one of the
\* failure `statuses`, or one of the exceptions `excs`.
ResponsesOf(bodies, statuses, excs) ==
    [exc : {None}, status : {OK}, body : bodies]
      \cup [exc : {None}, status : statuses, body : {NoBody}]
      \cup [exc : excs, status : {0}, body : {NoBody}]

Responses(prompts, contents) ==
    ResponsesOf(Bodies(prompts, contents), {BadRequest, 401, 402, 403, 429, 500},
                {"Timeout", "ConnectionError"})

\* ------------------------------------------------------------------- state
\* One request slot: the locals of chat() and where the handler stands.
\*   pc: "idle" (no request), "select" (about to call next), "check" (provider
\*       fetched), "call" / "retry" / "final" (that upstream call is in
\*       flight), "except" (a 200 reset the count and reading its body
\*       raised: the except clause is about to run), "done" (the reply was
\*       returned)
\*   raw: data["message"] as the client sent it
\*   payload: the payload of the upstream call in flight
\*   response: the response the handler received last
\*   message: choices[0].message of the first response
\*   reply: what the handler returned
\*   first_calls: the providers sent a first call by this request, in order
\*   skipped_unhealthy: the providers this request has passed over because
\*       their count was above the threshold
\* A local the handler will not read again before assigning it is held at its
\* idle value: raw and response once next() is called, provider and payload
\* between iterations, all but attempt, response and reply once the handler
\* has returned.
IdleRequest ==
    [pc |-> "idle", raw |-> <<>>, history |-> <<>>, user_message |-> <<>>,
     messages |-> <<>>, attempt |-> 0, attempted_providers |-> {},
     provider |-> None, payload |-> NoPayload, response |-> NoResponse,
     message |-> NoBody, image_url |-> NoImage,
     reply |-> Reply(0, <<>>, NoImage),
     first_calls |-> <<>>, skipped_unhealthy |-> {}]

RECURSIVE Subsequences(_)
Subsequences(s) ==
    IF s = <<>> THEN {<<>>}
    ELSE LET rest == Subsequences(Tail(s))
         IN rest \cup {<<Head(s)>> \o t : t \in rest}

\* The registry holds the candidates whose API key is set, in configuration
\* order; here a key may be set for each of the first n candidates.
Registries(n) == Subsequences(SubSeq(Candidates, 1, Min(n, Len(Candidates))))

\* The state after module import, with `slots` request slots.
InitWith(registries, slots) ==
    /\ PROVIDERS \in registries
    /\ provider_cycle = 1
    /\ provider_health = [n \in {PROVIDERS[i] : i \in 1..Len(PROVIDERS)} |-> 0]
    /\ req = [r \in slots |-> IdleRequest]
    /\ window = <<>>
    /\ image_log = <<>>

\* ----------------------------------------------------------------- actions
Budget == Min(MaxAttempts, N)

FailureWeight_flat(resp) == 1

\* The weight a failed first call adds to the provider's failure count.
FailureWeight(resp) ==
    IF resp.exc # None THEN 1
    ELSE IF resp.status \in {401, 403} THEN 5
    ELSE IF resp.status = 429 THEN 2
    ELSE IF resp.status = 402 THEN 3
    ELSE 1

Return_wrong_key(q, code, text, image) ==
    [IdleRequest EXCEPT !.pc = "done", !.raw = q.raw, !.attempt = q.attempt,
                        !.response = q.response,
                        !.reply = Reply(code, <<>>, image)]

\* return jsonify({"reply": text}), code
Return(q, code, text, image) ==
    [IdleRequest EXCEPT !.pc = "done", !.raw = q.raw, !.attempt = q.attempt,
                        !.response = q.response,
                        !.reply = Reply(code, text, image)]

NextIteration_free(q) ==
    [q EXCEPT !.pc = "select", !.provider = None, !.payload = NoPayload]

NextIteration_error(q) ==
    IF q.attempt + 1 < Budget
    THEN [q EXCEPT !.attempt = @ + 1, !.pc = "select", !.provider = None,
                   !.payload = NoPayload]
    ELSE Return(q, 500, <<"All providers failed">>, NoImage)

\* The for loop's next step after an iteration ends without a return:
\* the next iteration, or the fallback once range(min(3, N)) is exhausted.
NextIteration(q) ==
    IF q.attempt + 1 < Budget
    THEN [q EXCEPT !.attempt = @ + 1, !.pc = "select", !.provider = None,
                   !.payload = NoPayload]
    ELSE Return(q, OK, fallback_response, NoImage)

\* chat(), from entry to the start of the retry loop.
chat_Start(r, msgs, histories) ==
    /\ req[r].pc \in {"idle", "done"}
    /\ \E msg \in msgs, history \in histories :
         LET q == [IdleRequest EXCEPT !.raw = msg]
             user_message == strip(msg)
         IN req' = [req EXCEPT ![r] =
              IF N = 0
              THEN Return(q, OK, fallback_response, NoImage)
              ELSE IF user_message = <<>>
              THEN Return(q, BadRequest, <<PromptForInput>>, NoImage)
              ELSE [q EXCEPT !.pc = "select",
                             !.history = history,
                             !.user_message = user_message,
                             !.messages = <<SYSTEM_MESSAGE>> \o history
                                            \o <<Turn("user", user_message)>>]]
    /\ UNCHANGED <<PROVIDERS, provider_cycle, provider_health, window, image_log>>

CycleNext_nowrap(cursor) == IF cursor < N THEN cursor + 1 ELSE cursor

\* The cursor after next(provider_cycle): one further, wrapping at the end.
CycleNext(cursor) == (cursor % N) + 1

\* provider = next(provider_cycle)
chat_Select(r) ==
    /\ req[r].pc = "select"
    /\ LET name == PROVIDERS[provider_cycle]
       IN req' = [req EXCEPT ![r].provider = name,
                             ![r].pc = "check",
                             ![r].raw = <<>>,
                             ![r].response = NoResponse]
    /\ provider_cycle' = CycleNext(provider_cycle)
    /\ window' = LET w == Append(window, PROVIDERS[provider_cycle])
                 IN IF Len(w) > N THEN Tail(w) ELSE w
    /\ UNCHANGED <<PROVIDERS, provider_health, image_log>>

Skips_ignores_health(q, health) == q.provider \in q.attempted_providers

Skips_ignores_attempted(q, health) == health[q.provider] > UnhealthyThreshold

\* The two skip tests of the loop body.
Skips(q, health) ==
    \/ q.provider \in q.attempted_providers
    \/ health[q.provider] > UnhealthyThreshold

\* The skip tests and, when the provider is taken, the first upstream call.
chat_Check(r) ==
    /\ req[r].pc = "check"
    /\ LET q == req[r]
       IN req' = [req EXCEPT ![r] =
            IF Skips(q, provider_health)
            THEN NextIteration(
                   [q EXCEPT !.skipped_unhealthy =
                       IF q.provider \notin q.attempted_providers
                       THEN @ \cup {q.provider} ELSE @])
            ELSE [q EXCEPT !.attempted_providers = @ \cup {q.provider},
                           !.first_calls = Append(@, q.provider),
                           !.payload = prepare_payload(q.provider, q.messages, TRUE),
                           !.pc = "call"]]
    /\ UNCHANGED <<PROVIDERS, provider_cycle, provider_health, window, image_log>>

RecordFailure_decay(health, name, w) ==
    [p \in DOMAIN health |->
        IF p = name THEN health[p] + w
        ELSE IF health[p] > 0 THEN health[p] - 1 ELSE 0]

\* The failure count after `provider_health[name]["failures"] += w`.
RecordFailure(health, name, w) == [health EXCEPT ![name] = @ + w]

RecordSuccess_decrement(health, name) ==
    [health EXCEPT ![name] = IF @ > 0 THEN @ - 1 ELSE 0]

\* The failure count after `provider_health[name]["failures"] = 0`.
RecordSuccess(health, name) == [health EXCEPT ![name] = 0]

ToolTurns_fresh_id(tool_call, image_url) ==
    <<[Turn("assistant", <<None>>) EXCEPT !.tool_calls = <<tool_call>>],
      [Turn("tool", <<"image_url">>) EXCEPT !.tool_call_id = "call_0",
                                            !.image = image_url]>>

\* The two turns appended after the tool ran: the assistant turn echoing the
\* tool invocation, and the tool turn holding json.dumps({"image_url": url}).
ToolTurns(tool_call, image_url) ==
    <<[Turn("assistant", <<None>>) EXCEPT !.tool_calls = <<tool_call>>],
      [Turn("tool", <<"image_url">>) EXCEPT !.tool_call_id = tool_call.id,
                                            !.image = image_url]>>

\* The tool invocation is one the handler executes.
RunsTool(body) ==
    /\ body.tool_calls # <<>>
    /\ body.tool_calls[1].name = "generate_image"
    /\ body.tool_calls[1].prompt # <<>>

\* The response to the first, tools-enabled call of an attempt.
chat_Respond(r, responses) ==
    /\ req[r].pc = "call"
    /\ \E resp \in responses :
         LET q == [req[r] EXCEPT !.response = resp]
             name == q.provider
             body == resp.body
         IN \/ /\ resp.exc = None /\ resp.status = OK /\ body.shape = "ok"
               /\ provider_health' = RecordSuccess(provider_health, name)
               /\ IF RunsTool(body)
                  THEN \E seed \in Seeds :
                         LET image_url == generate_image(body.tool_calls[1].prompt, seed)
                             messages == q.messages
                                           \o ToolTurns(body.tool_calls[1], image_url)
                         IN req' = [req EXCEPT ![r] =
                              [q EXCEPT !.message = body,
                                        !.image_url = image_url,
                                        !.messages = messages,
                                        !.payload = prepare_payload(name, messages, FALSE),
                                        !.pc = "final"]]
                  ELSE req' = [req EXCEPT ![r] = Return(q, OK, body.content, NoImage)]
            \/ /\ resp.exc = None /\ resp.status = OK /\ body.shape = "nochoices"
               /\ provider_health' = RecordSuccess(provider_health, name)
               /\ req' = [req EXCEPT ![r] = NextIteration(q)]
            \/ /\ resp.exc = None /\ resp.status = OK /\ body.shape = "malformed"
               /\ provider_health' = RecordSuccess(provider_health, name)
               /\ req' = [req EXCEPT ![r] = [q EXCEPT !.pc = "except"]]
            \/ /\ resp.exc = None /\ resp.status = BadRequest
               /\ provider_health' = provider_health
               /\ req' = [req EXCEPT ![r] =
                    [q EXCEPT !.payload = prepare_payload(name, q.messages, FALSE),
                              !.pc = "retry"]]
            \/ /\ resp.exc # None \/ resp.status \notin {OK, BadRequest}
               /\ provider_health[name] + FailureWeight(resp) <= MaxFailures
               /\ provider_health' = RecordFailure(provider_health, name, FailureWeight(resp))
               /\ req' = [req EXCEPT ![r] = NextIteration(q)]
    /\ UNCHANGED <<PROVIDERS, provider_cycle, window, image_log>>

chat_RespondRetry_weighted(r, responses) ==
    /\ req[r].pc = "retry"
    /\ \E resp \in responses :
         LET q == [req[r] EXCEPT !.response = resp]
             name == q.provider
             body == resp.body
         IN \/ /\ resp.exc = None /\ resp.status = OK /\ body.shape = "ok"
               /\ provider_health' = RecordSuccess(provider_health, name)
               /\ req' = [req EXCEPT ![r] = Return(q, OK, body.content, NoImage)]
            \/ /\ resp.exc = None /\ resp.status = OK /\ body.shape # "ok"
               /\ provider_health' = RecordSuccess(provider_health, name)
               /\ req' = [req EXCEPT ![r] = [q EXCEPT !.pc = "except"]]
            \/ /\ resp.exc # None \/ resp.status # OK
               /\ provider_health[name] + FailureWeight(resp) <= MaxFailures
               /\ provider_health' = RecordFailure(provider_health, name, FailureWeight(resp))
               /\ req' = [req EXCEPT ![r] = NextIteration(q)]
    /\ UNCHANGED <<PROVIDERS, provider_cycle, window, image_log>>

\* The response to the tools-disabled retry that follows a 400.
chat_RespondRetry(r, responses) ==
    /\ req[r].pc = "retry"
    /\ \E resp \in responses :
         LET q == [req[r] EXCEPT !.response = resp]
             name == q.provider
             body == resp.body
         IN \/ /\ resp.exc = None /\ resp.status = OK /\ body.shape = "ok"
               /\ provider_health' = RecordSuccess(provider_health, name)
               /\ req' = [req EXCEPT ![r] = Return(q, OK, body.content, NoImage)]
            \/ /\ resp.exc = None /\ resp.status = OK /\ body.shape # "ok"
               /\ provider_health' = RecordSuccess(provider_health, name)
               /\ req' = [req EXCEPT ![r] = [q EXCEPT !.pc = "except"]]
            \/ /\ resp.exc # None \/ resp.status # OK
               /\ provider_health[name] + 1 <= MaxFailures
               /\ provider_health' = RecordFailure(provider_health, name, 1)
               /\ req' = [req EXCEPT ![r] = NextIteration(q)]
    /\ UNCHANGED <<PROVIDERS, provider_cycle, window, image_log>>

\* `except Exception`, reached when the body of a 200 could not be read: the
\* count, reset to 0 when the status was seen, is increased by one.
chat_Except(r) ==
    /\ req[r].pc = "except"
    /\ provider_health' = RecordFailure(provider_health, req[r].provider, 1)
    /\ req' = [req EXCEPT ![r] = NextIteration(req[r])]
    /\ UNCHANGED <<PROVIDERS, provider_cycle, window, image_log>>

chat_RespondFinal_continues(r, responses) ==
    /\ req[r].pc = "final"
    /\ \E resp \in responses :
         LET q == [req[r] EXCEPT !.response = resp]
             body == resp.body
         IN req' = [req EXCEPT ![r] =
              IF resp.exc = None /\ resp.status = OK /\ body.shape = "ok"
              THEN Return(q, OK, body.content, q.image_url)
              ELSE NextIteration(q)]
    /\ UNCHANGED <<PROVIDERS, provider_cycle, provider_health, window, image_log>>

\* The response to the finalize call that follows the tool's execution.
chat_RespondFinal(r, responses) ==
    /\ req[r].pc = "final"
    /\ \E resp \in responses :
         LET q == [req[r] EXCEPT !.response = resp]
             body == resp.body
         IN req' = [req EXCEPT ![r] =
              IF resp.exc = None /\ resp.status = OK /\ body.shape = "ok"
              THEN Return(q, OK, body.content, q.image_url)
              ELSE Return(q, OK, q.message.content, NoImage)]
    /\ UNCHANGED <<PROVIDERS, provider_cycle, provider_health, window, image_log>>

\* health(): the "providers" list of the JSON that GET /health returns, read
\* from PROVIDERS and provider_health; the route writes nothing.
health_route ==
    [i \in 1..N |->
        [name |-> PROVIDERS[i],
         model |-> default_model(PROVIDERS[i]),
         health |-> provider_health[PROVIDERS[i]] < HealthQueryLimit]]

\* One call of generate_image(prompt), on its own.
InvokeImageTool(prompts) ==
    /\ Len(image_log) < 2
    /\ \E prompt \in prompts, seed \in Seeds :
         image_log' = Append(image_log,
                             [prompt |-> prompt, url |-> generate_image(prompt, seed)])
    /\ UNCHANGED <<PROVIDERS, provider_cycle, provider_health, req, window>>

\* ---------------------------------------------------------- specifications
\* Spec: the threaded server.  Requests run concurrently over the shared
\* cursor and failure counts.
Requests == 1..NumRequests
ConcMessages == {<<>>, <<"a">>}
ConcPrompts == {<<>>, <<"a">>}
ConcBodies ==
    {b \in Bodies({<<"a">>}, {<<"Hello!">>}) :
        /\ b.shape \in {"ok", "malformed"}
        /\ b.tool_calls # <<>> => b.tool_calls[1].name = "generate_image"}
ConcResponses == ResponsesOf(ConcBodies, {BadRequest, 401, 429, 500}, {})

Init == InitWith(Registries(ConcProviders), Requests)

Next ==
    \E r \in Requests :
        \/ chat_Start(r, ConcMessages, Histories(0))
        \/ chat_Select(r)
        \/ chat_Check(r)
        \/ chat_Respond(r, ConcResponses)
        \/ chat_RespondRetry(r, ConcResponses)
        \/ chat_RespondFinal(r, ConcResponses)
        \/ chat_Except(r)

Spec == Init /\ [][Next]_vars

\* SpecFair: the threaded server over fewer kinds of response, where every
\* request thread keeps being scheduled and every upstream call ends
\* (requests.post is given timeout=30): a handler that can take a step
\* eventually takes one.
FairMessages == {<<"a">>}
FairResponses == ResponsesOf(ConcBodies, {BadRequest, 401}, {"Timeout"})

\* One step of request r's handler once it has entered chat().
Handler(r) ==
    \/ chat_Select(r)
    \/ chat_Check(r)
    \/ chat_Respond(r, FairResponses)
    \/ chat_RespondRetry(r, FairResponses)
    \/ chat_RespondFinal(r, FairResponses)
    \/ chat_Except(r)

NextFair == \E r \in Requests : chat_Start(r, FairMessages, Histories(0)) \/ Handler(r)

Fairness == \A r \in Requests : WF_vars(Handler(r))

SpecFair == Init /\ [][NextFair]_vars /\ Fairness

\* SpecSeq: one request at a time, over every registry.
SeqResponses == Responses(ConcPrompts, Contents)

InitSeq == InitWith(Subsequences(Candidates), {1})

NextSeq ==
    \/ chat_Start(1, ConcMessages, Histories(0))
    \/ chat_Select(1)
    \/ chat_Check(1)
    \/ chat_Respond(1, SeqResponses)
    \/ chat_RespondRetry(1, SeqResponses)
    \/ chat_RespondFinal(1, SeqResponses)
    \/ chat_Except(1)

SpecSeq == InitSeq /\ [][NextSeq]_vars

\* SpecAuth: one request at a time, where an upstream call is answered with a
\* plain completion or an authentication failure and nothing else.
AuthResponses ==
    {resp \in SeqResponses :
        /\ resp.exc = None
        /\ resp.status \in {OK, 401, 403}
        /\ resp.status = OK => (resp.body.shape = "ok" /\ resp.body.tool_calls = <<>>)}

NextAuth ==
    \/ chat_Start(1, ConcMessages, Histories(0))
    \/ chat_Select(1)
    \/ chat_Check(1)
    \/ chat_Respond(1, AuthResponses)

SpecAuth == InitSeq /\ [][NextAuth]_vars

\* SpecData: one request at a time, over the messages, histories, prompts and
\* completions a request may carry.
DataMessages == SeqsUpTo(Chars, MaxMsgLen)
DataPrompts == {<<>>, <<" ">>, <<"a">>, <<" ", "a", " ", "a">>}
DataResponses == Responses(DataPrompts, Contents)

InitData == InitWith(Registries(DataProviders), {1})

NextData ==
    \/ chat_Start(1, DataMessages, Histories(MaxHist))
    \/ chat_Select(1)
    \/ chat_Check(1)
    \/ chat_Respond(1, DataResponses)
    \/ chat_RespondRetry(1, DataResponses)
    \/ chat_RespondFinal(1, DataResponses)
    \/ chat_Except(1)

SpecData == InitData /\ [][NextData]_vars

\* SpecImage: generate_image on its own, called twice over every prompt.
ImagePrompts == SeqsUpTo(Chars, MaxPromptLen) \ {<<>>}

InitImage == InitWith({<<>>}, {1})

NextImage == InvokeImageTool(ImagePrompts)

SpecImage == InitImage /\ [][NextImage]_vars

\* ------------------------------------------------------------- properties
Slots == DOMAIN req

InFlight(q) == q.pc \in {"call", "retry", "final"}

\* The message is empty or whitespace only.
IsBlank(s) == \A i \in 1..Len(s) : s[i] = " "

\* Slot r enters chat() in this step.
Enters(r) == req[r].pc \in {"idle", "done"} /\ req'[r] # req[r]

\* Slot r handles the response to its first call in this step.
HandlesFirst(r) == req[r].pc = "call" /\ req'[r].pc # "call"

\* A 200 whose body has choices[0].message.
Is200Ok(resp) == resp.exc = None /\ resp.status = 200 /\ resp.body.shape = "ok"

\* A 200 with a plain text completion.
IsText(resp) == Is200Ok(resp) /\ resp.body.tool_calls = <<>>

\* A 200 with a generate_image invocation that has a non-empty prompt.
IsToolInvocation(resp) ==
    /\ Is200Ok(resp)
    /\ resp.body.tool_calls # <<>>
    /\ resp.body.tool_calls[1].name = "generate_image"
    /\ resp.body.tool_calls[1].prompt # <<>>

\* C1: every window of N consecutive calls of next() holds each provider
\* exactly once, in configuration order up to rotation, whatever the failure
\* counts are.
C1_CyclicFairness ==
    N >= 1 =>
      /\ \E k \in 0..(N - 1) :
            \A i \in 1..Len(window) : window[i] = PROVIDERS[((k + i - 1) % N) + 1]
      /\ Len(window) = N =>
            \A p \in Names : Cardinality({i \in 1..N : window[i] = p}) = 1

C1_Witness ==
    /\ N >= 2
    /\ Len(window) = N
    /\ window[1] # PROVIDERS[1]
    /\ \E p \in Names : provider_health[p] > UnhealthyThreshold
    /\ \A r \in Slots : req[r].pc \in {"check", "call"}

\* C2 as stated: a request with an empty or whitespace-only message, with any
\* number of providers configured, makes no upstream call, leaves the cursor
\* and the failure counts alone and is answered "Please type a message.".
C2_Original ==
    [][\A r \in Slots :
         (Enters(r) /\ IsBlank(req'[r].raw)) =>
           /\ req'[r].pc = "done"
           /\ req'[r].reply.reply = <<"Please type a message.">>
           /\ UNCHANGED <<provider_cycle, provider_health>>]_vars

\* C2 as amended: such a request makes no upstream call and leaves the cursor
\* and the failure counts alone; it is answered "Please type a message." when
\* at least one provider is configured, and with the fallback payload when
\* none is.
C2_BlankMessage ==
    [][\A r \in Slots :
         (Enters(r) /\ IsBlank(req'[r].raw)) =>
           /\ req'[r].pc = "done"
           /\ req'[r].reply.reply =
                IF N = 0 THEN <<FallbackText>> ELSE <<"Please type a message.">>
           /\ UNCHANGED <<provider_cycle, provider_health>>]_vars

C2_Witness ==
    \E r \in Slots :
        /\ N >= 1
        /\ req[r].pc = "done"
        /\ req[r].raw # <<>> /\ IsBlank(req[r].raw)
        /\ req[r].reply.reply = <<"Please type a message.">>
        /\ \E p \in Names : provider_health[p] > 0

\* C3: with no provider configured, a request with a non-empty message is
\* answered with the fallback payload and never has an upstream call in flight.
C3_NoProviders ==
    N = 0 =>
      \A r \in Slots :
          /\ req[r].pc \in {"idle", "done"}
          /\ (req[r].pc = "done" /\ ~IsBlank(req[r].raw)) =>
                req[r].reply = Reply(200, <<FallbackText>>, NoImage)

C3_Witness ==
    \E r \in Slots :
        /\ N = 0
        /\ req[r].pc = "done"
        /\ ~IsBlank(req[r].raw)
        /\ req[r].reply.reply = <<FallbackText>>

C5_FirstSuccessWins ==
    [][\A r \in Slots :
         (HandlesFirst(r) /\ IsText(req'[r].response)) =>
           /\ req'[r].pc = "done"
           /\ req'[r].reply = Reply(200, req'[r].response.body.content, NoImage)
           /\ req'[r].reply.reply # <<FallbackText>>]_vars

\* Two providers failed in this request (no provider is unhealthy, so none was
\* skipped) and the third answered "Hello!".
C5_Witness ==
    \E r \in Slots :
        /\ N >= 3
        /\ req[r].pc = "done"
        /\ req[r].attempt = 2
        /\ IsText(req[r].response)
        /\ req[r].reply.reply = <<"Hello!">>
        /\ \A p \in Names : provider_health[p] <= UnhealthyThreshold
        /\ Cardinality({p \in Names : provider_health[p] = 5}) = 2

\* C6 as stated: a provider that a request found above the threshold when the
\* cursor returned it, and passed over, is never sent an upstream call by that
\* request.
C6_Original ==
    \A r \in Slots : InFlight(req[r]) => req[r].provider \notin req[r].skipped_unhealthy

\* C6 as amended: next() returns the provider under the cursor and moves the
\* cursor on whatever the failure counts are; a provider whose count is above
\* the threshold when the request tests it is sent no call in that iteration,
\* which is consumed; a provider that is untried by this request and whose
\* count is not above the threshold when tested is sent the first call.
C6_SkipsUnhealthy ==
    [][\A r \in Slots :
         /\ (req[r].pc = "select" /\ req'[r].pc = "check") =>
              /\ req'[r].provider = PROVIDERS[provider_cycle]
              /\ provider_cycle' = (provider_cycle % N) + 1
         /\ (req[r].pc = "check" /\ req'[r] # req[r]) =>
              LET p == req[r].provider
              IN /\ provider_cycle' = provider_cycle
                 /\ provider_health[p] > 5 =>
                      /\ ~InFlight(req'[r])
                      /\ req'[r].pc \in {"select", "done"}
                      /\ req'[r].pc = "select" =>
                            /\ req'[r].attempt = req[r].attempt + 1
                            /\ req'[r].attempted_providers = req[r].attempted_providers
                 /\ (provider_health[p] <= 5 /\ p \notin req[r].attempted_providers) =>
                      /\ req'[r].pc = "call"
                      /\ req'[r].payload.provider = p
                      /\ req'[r].attempted_providers =
                            req[r].attempted_providers \cup {p}]_vars

\* A request that passed over an unhealthy provider has a call to another in flight.
C6_Witness ==
    \E r \in Slots :
        /\ req[r].pc = "call"
        /\ req[r].skipped_unhealthy # {}
        /\ req[r].provider \notin req[r].skipped_unhealthy
        /\ \A p \in req[r].skipped_unhealthy : provider_health[p] > 5

\* C7: a request that leaves its retry loop without a reply from any attempt
\* (its last iteration skipped the provider, or ended on a failed first call
\* or a failed retry) returns exactly the fallback payload with status 200;
\* and a request that returns the fallback payload from the loop has just
\* ended an iteration that gave no completion.
C7_FallbackOnExhaustion ==
    [][\A r \in Slots :
         /\ (/\ req[r].pc \in {"check", "call", "retry", "except"}
             /\ req'[r].pc = "done"
             /\ ~Is200Ok(req'[r].response)) =>
                req'[r].reply = Reply(200, <<FallbackText>>, NoImage)
         /\ (/\ req[r].pc \in {"check", "call", "retry", "except", "final"}
             /\ req'[r].pc = "done"
             /\ req'[r].reply.reply = <<FallbackText>>) =>
                /\ req[r].pc # "final"
                /\ ~Is200Ok(req'[r].response)
                /\ req'[r].reply.code = 200
                /\ req[r].attempt + 1 = Min(3, N)]_vars

\* Four providers, three iterations, the last one failed: the fallback.
C7_Witness ==
    \E r \in Slots :
        /\ N = 4
        /\ req[r].pc = "done"
        /\ req[r].attempt = 2
        /\ req[r].response.status = 500
        /\ req[r].reply = Reply(200, <<FallbackText>>, NoImage)

\* urllib.parse.unquote on the model's characters: %20 becomes a space.
RECURSIVE unquote(_)
unquote(s) ==
    IF s = <<>> THEN <<>>
    ELSE IF Len(s) >= 3 /\ SubSeq(s, 1, 3) = <<"%", "2", "0">>
         THEN <<" ">> \o unquote(SubSeq(s, 4, Len(s)))
         ELSE <<Head(s)>> \o unquote(Tail(s))

\* C8 as stated: two calls of the image tool with the same prompt yield the
\* same URL.
C8_Original ==
    \A i, j \in 1..Len(image_log) :
        image_log[i].prompt = image_log[j].prompt => image_log[i].url = image_log[j].url

\* C8 as amended: the URL is built from the fixed base endpoint, the
\* percent-encoding of the stripped prompt, the fixed rendering parameters and
\* a seed drawn from 1..MaxSeed (the code: 1..9999); two calls with the same
\* prompt yield URLs that agree in everything but the seed.
C8_ImageUrl ==
    /\ \A i \in 1..Len(image_log) :
          LET u == image_log[i].url
          IN /\ u.base = "https://image.pollinations.ai/prompt/"
             /\ u.params = "?width=1024&height=1024&nologo=true&enhance=true&seed="
             /\ u.seed \in 1..MaxSeed
             /\ \A k \in 1..Len(u.encoded) : u.encoded[k] \in {"a", "%", "2", "0"}
             /\ unquote(u.encoded) = strip(image_log[i].prompt)
    /\ \A i, j \in 1..Len(image_log) :
          image_log[i].prompt = image_log[j].prompt =>
            [image_log[i].url EXCEPT !.seed = 0] = [image_log[j].url EXCEPT !.seed = 0]

C8_Witness ==
    /\ Len(image_log) = 2
    /\ image_log[1].prompt = <<"a", " ", "a">>
    /\ image_log[2].prompt = <<"a", " ", "a">>
    /\ image_log[1].url.encoded = <<"a", "%", "2", "0", "a">>
    /\ image_log[1].url.seed # image_log[2].url.seed

\* C9: the first call to every provider a request attempts carries K + 2
\* turns: the system turn, the K history turns in their order, and the user
\* turn with the stripped message.
C9_TurnSequence ==
    \A r \in Slots :
        req[r].pc = "call" =>
          LET m == req[r].payload.messages
              K == Len(req[r].history)
          IN /\ Len(m) = K + 2
             /\ m[1] = SYSTEM_MESSAGE
             /\ \A k \in 1..K : m[k + 1] = req[r].history[k]
             /\ m[K + 2].role = "user"
             /\ m[K + 2].content = req[r].user_message
             /\ req[r].user_message # <<>>
             /\ req[r].payload.provider = req[r].provider

\* The first call to the second provider a request attempts, with two turns
\* of history.
C9_Witness ==
    \E r \in Slots :
        /\ req[r].pc = "call"
        /\ Len(req[r].first_calls) = 2
        /\ Len(req[r].history) >= 2
        /\ req[r].history[1] # req[r].history[2]

\* C10: under any interleaving, the providers a request has sent a first call
\* to are all different.
C10_NoProviderTwice ==
    \A r \in Slots :
        \A i, j \in 1..Len(req[r].first_calls) :
            i # j => req[r].first_calls[i] # req[r].first_calls[j]

\* The cursor, moved on by the other request, has returned a provider this
\* request already attempted.
C10_Witness ==
    \E r \in Slots :
        /\ req[r].pc = "check"
        /\ req[r].first_calls = <<req[r].provider>>
        /\ req[r].provider \in req[r].attempted_providers

\* The request leaves its retry loop with the fallback payload in this step.
FallsBack(r) ==
    /\ req[r].pc \in {"check", "call", "retry", "except"}
    /\ req'[r].pc = "done"
    /\ req'[r].reply.reply = <<FallbackText>>

\* C11 as stated: when the cursor returns a provider this request has already
\* attempted, the request selects again with its retry budget unchanged; and
\* a request that falls back with N <= 3 providers, none of them above the
\* threshold, has attempted all N.
C11_Original ==
    [][\A r \in Slots :
         /\ (/\ req[r].pc = "check"
             /\ req[r].provider \in req[r].attempted_providers) =>
                /\ req'[r].pc = "select"
                /\ req'[r].attempt = req[r].attempt
         /\ (/\ FallsBack(r)
             /\ N <= 3
             /\ req[r].skipped_unhealthy = {}
             /\ \A p \in Names : provider_health[p] <= 5 /\ provider_health'[p] <= 5) =>
                req[r].attempted_providers = Names]_vars

\* Slot r handles the response to its 400-retry call in this step.
HandlesRetry(r) == req[r].pc = "retry" /\ req'[r] # req[r]

\* The response is a failure: an exception or a status other than 200.
IsFailure(resp) == resp.exc # None \/ resp.status # 200

\* Slot r goes on to the next iteration, or to the fallback after the last.
Continues(r) ==
    \/ /\ req'[r].pc = "select"
       /\ req'[r].attempt = req[r].attempt + 1
    \/ /\ req'[r].pc = "done"
       /\ req[r].attempt + 1 = Min(3, N)
       /\ req'[r].reply = Reply(200, <<FallbackText>>, NoImage)

\* Only provider p's failure count changes in this step, and it becomes v.
OnlyCountBecomes(p, v) ==
    provider_health' = [provider_health EXCEPT ![p] = v]

\* A first response of 400 is followed by one call to the same provider with
\* the same turns and tools disabled, and the failure counts are left alone.
RetriesOnce(r) ==
    (HandlesFirst(r) /\ req'[r].response.exc = None /\ req'[r].response.status = 400) =>
       /\ req'[r].pc = "retry"
       /\ req'[r].provider = req[r].provider
       /\ req'[r].payload.provider = req[r].provider
       /\ req'[r].payload.model = req[r].payload.model
       /\ req'[r].payload.messages = req[r].payload.messages
       /\ req[r].payload.tools = (req[r].provider # "Together")
       /\ ~req'[r].payload.tools
       /\ provider_health' = provider_health

\* A failed retry adds exactly 1 and the request continues; the retry is the
\* last call to this provider in this request.
RetryFailureCounts(r) ==
    (HandlesRetry(r) /\ IsFailure(req'[r].response)) =>
       /\ OnlyCountBecomes(req[r].provider, provider_health[req[r].provider] + 1)
       /\ Continues(r)

\* C12 as stated: a first response of 400 is followed by exactly one more
\* call to the same provider, with tools disabled; when that retry returns
\* 200 the request returns the retry's content and the count becomes 0; when
\* it fails (non-200 status, timeout or connection error) the count increases
\* by exactly 1 and the request continues with the next provider.
C12_Original ==
    [][\A r \in Slots :
         /\ RetriesOnce(r)
         /\ (HandlesRetry(r) /\ ~IsFailure(req'[r].response)) =>
               /\ req'[r].pc = "done"
               /\ req'[r].reply = Reply(200, req'[r].response.body.content, NoImage)
               /\ OnlyCountBecomes(req[r].provider, 0)
         /\ RetryFailureCounts(r)]_vars

\* C12 as amended: as stated when the retry's 200 carries a completion; a
\* retry's 200 whose body holds no readable completion sets the count to 0,
\* then counts as a failure of weight 1, and the request continues.
C12_RetryWithoutTools ==
    [][\A r \in Slots :
         /\ RetriesOnce(r)
         /\ (HandlesRetry(r) /\ Is200Ok(req'[r].response)) =>
               /\ req'[r].pc = "done"
               /\ req'[r].reply = Reply(200, req'[r].response.body.content, NoImage)
               /\ OnlyCountBecomes(req[r].provider, 0)
         /\ (HandlesRetry(r) /\ ~IsFailure(req'[r].response)
                             /\ ~Is200Ok(req'[r].response)) =>
               /\ req'[r].pc = "except"
               /\ req'[r].provider = req[r].provider
               /\ OnlyCountBecomes(req[r].provider, 0)
         /\ (req[r].pc = "except" /\ req'[r] # req[r]) =>
               /\ OnlyCountBecomes(req[r].provider, provider_health[req[r].provider] + 1)
               /\ Continues(r)
         /\ RetryFailureCounts(r)]_vars

\* The first provider answered 400 and then 401 to the retry: its count is 1
\* (a 401 to a first call would have made it 5) and the request selects again.
C12_Witness ==
    \E r \in Slots :
        /\ N >= 2
        /\ req[r].pc = "select"
        /\ req[r].attempt = 1
        /\ req[r].response.status = 401
        /\ Len(req[r].first_calls) = 1
        /\ provider_health[req[r].first_calls[1]] = 1

\* The weight the failure classes are said to carry.
ClassWeight(resp) ==
    IF resp.exc \in {"Timeout", "ConnectionError"} THEN 1
    ELSE CASE resp.status \in {401, 403} -> 5
           [] resp.status = 402 -> 3
           [] resp.status = 429 -> 2
           [] OTHER -> 1

\* After a failed first call: the provider's count is up by the weight of the
\* failure class, no other count changed, and the request goes on to the next
\* candidate with this provider marked as attempted.
FailureRecorded(r) ==
    /\ OnlyCountBecomes(req[r].provider,
                        provider_health[req[r].provider] + ClassWeight(req'[r].response))
    /\ Continues(r)
    /\ req'[r].pc = "select" => req[r].provider \in req'[r].attempted_providers

\* C13 as stated: every failed first call (timeout, connection error or any
\* status other than 200) adds exactly the weight of its class to the
\* attempted provider's count and to no other, the provider is not called
\* again in the request, and the request proceeds to the next candidate.
C13_Original ==
    [][\A r \in Slots :
         (HandlesFirst(r) /\ IsFailure(req'[r].response)) => FailureRecorded(r)]_vars

\* C13 as amended: the same for every failed first call but a 400, which is
\* followed by the tools-disabled retry instead.
C13_WeightedFailure ==
    [][\A r \in Slots :
         (HandlesFirst(r) /\ IsFailure(req'[r].response)
                         /\ req'[r].response.status # 400) => FailureRecorded(r)]_vars

\* One provider answered 402, the next 429, and the request selects a third.
C13_Witness ==
    \E r \in Slots :
        /\ N >= 3
        /\ req[r].pc = "select"
        /\ req[r].attempt = 2
        /\ req[r].response.status = 429
        /\ Len(req[r].first_calls) = 2
        /\ provider_health[req[r].first_calls[1]] = 3
        /\ provider_health[req[r].first_calls[2]] = 2

\* A new request would attempt provider p, given the failure counts `health`.
Eligible(p, health) == ~Skips([IdleRequest EXCEPT !.provider = p], health)

HandlesFinal(r) == req[r].pc = "final" /\ req'[r] # req[r]

\* C15 as stated: when the tool has run (the image URL is built) and the
\* finalize call fails (non-200 status, timeout or connection error), the
\* request either returns a reply holding the image URL, or goes on to the
\* next provider without running the tool again for this response; it does
\* not return a reply without the URL.
C15_Original ==
    [][\A r \in Slots :
         (HandlesFinal(r) /\ IsFailure(req'[r].response)) =>
            /\ req[r].image_url # NoImage
            /\ \/ /\ req'[r].pc = "done"
                  /\ req'[r].reply.image = req[r].image_url
               \/ /\ req'[r].pc = "select"
                  /\ req'[r].attempt = req[r].attempt + 1]_vars

\* A 200 with a tool invocation the handler does not execute: a tool other
\* than generate_image, or a missing or empty prompt.
IsMalformedInvocation(resp) ==
    /\ Is200Ok(resp)
    /\ resp.body.tool_calls # <<>>
    /\ ~IsToolInvocation(resp)

\* C16 as stated: a first response of 200 with a malformed tool invocation
\* does not increase the provider's failure count, builds no image URL and
\* makes no finalize call, and the request retries without tools or goes on
\* to the next provider; it does not end with that response's content.
C16_Original ==
    [][\A r \in Slots :
         (HandlesFirst(r) /\ IsMalformedInvocation(req'[r].response)) =>
            /\ provider_health'[req[r].provider] <= provider_health[req[r].provider]
            /\ req'[r].image_url = NoImage
            /\ req'[r].reply.image = NoImage
            /\ req'[r].pc # "final"
            /\ \/ req'[r].pc = "retry"
               \/ Continues(r)]_vars

\* The budget of one request: next() is called only while iterations remain,
\* every iteration that ends without a reply uses up one, and a provider gets
\* its first call only when untried, followed by at most one more call (the
\* 400-retry or the finalize call).
BudgetStep(r) ==
    /\ (req[r].pc = "select" /\ req'[r].pc = "check") =>
          /\ req[r].attempt < Min(3, N)
          /\ req'[r].attempt = req[r].attempt
    /\ (req[r].pc # "select" /\ req'[r].pc = "select") =>
          IF req[r].pc \in {"idle", "done"}
          THEN req'[r].attempt = 0
          ELSE req'[r].attempt = req[r].attempt + 1
    /\ (req[r].pc # "call" /\ req'[r].pc = "call") =>
          /\ req[r].pc = "check"
          /\ req[r].provider \notin req[r].attempted_providers
    /\ (req[r].pc # req'[r].pc /\ req'[r].pc \in {"retry", "final"}) =>
          req[r].pc = "call"
    /\ (req[r].pc \in {"retry", "final", "except"} /\ req'[r] # req[r]) =>
          req'[r].pc \in {"select", "done", "except"}
    /\ (req[r].pc = "except" /\ req'[r] # req[r]) =>
          req'[r].pc \in {"select", "done"}

\* C17: every request that has entered chat() eventually returns a reply
\* (no request stays in progress for ever: a slot is idle or done again and
\* again, and a request in progress leaves that state only by returning),
\* under any interleaving and any responses, when every handler keeps being
\* scheduled and every upstream call ends; it calls next() at most min(3, N)
\* times, each call of next() uses one iteration (a skip included), and an
\* attempted provider is sent at most two calls.
C17_Terminates ==
    /\ \A r \in Requests : []<>(req[r].pc \in {"idle", "done"})
    /\ [][\A r \in Requests : BudgetStep(r)]_vars

\* A request returned the fallback after its second and last iteration, with
\* two providers of which one is above the threshold.
C17_Witness ==
    \E r \in Slots :
        /\ N = 2
        /\ req[r].pc = "done"
        /\ req[r].attempt = 1
        /\ req[r].reply.reply = <<FallbackText>>
        /\ \E p \in Names : provider_health[p] > 5

\* C18 as stated, where every failure is an authentication failure and the
\* counts start at 0: a provider that has answered 401/403 (its count is no
\* longer 0) is skipped by every later request, so a provider with a call in
\* flight has answered none since its count was 0.
C18_Original ==
    \A r \in Slots :
        req[r].pc = "call" => provider_health[req[r].provider] = 0

\* Request q is in the middle of an attempt on provider p: a call to p is in
\* flight, or the body of p's 200 response is still being read.
InAttempt(q, p) == q.provider = p /\ q.pc \in {"call", "retry", "final", "except"}

\* Every change of p's count is a weighted increment made by a request that
\* is attempting p, or a reset to 0 on p's own 200 response.
CountStep(p) ==
    provider_health'[p] # provider_health[p] =>
      \E r \in Slots :
          /\ req[r].provider = p
          /\ \/ /\ req[r].pc \in {"call", "retry"}
                /\ req'[r].response.exc = None
                /\ req'[r].response.status = 200
                /\ provider_health'[p] = 0
             \/ /\ req[r].pc \in {"call", "retry", "except"}
                /\ provider_health'[p] - provider_health[p] \in {1, 2, 3, 5}

\* p's count is above the threshold and no request has a call to p in flight.
Exiled(p) ==
    /\ provider_health[p] > 5
    /\ \A r \in Slots : ~(InFlight(req[r]) /\ req[r].provider = p)

\* p's count is above the threshold and no request is attempting p.
Settled(p) ==
    /\ provider_health[p] > 5
    /\ \A r \in Slots : ~InAttempt(req[r], p)

\* C19 as stated: the counts are natural numbers that change only by a
\* weighted increment or by a reset on the provider's own 200; a provider
\* whose count is above 5 while no call to it is in flight is never called
\* again and its count never changes; and when every provider is in that
\* state, every request that returns, returns the fallback payload.
C19_Original ==
    [][/\ \A p \in Names : provider_health[p] \in Nat /\ CountStep(p)
       /\ \A p \in Names :
            Exiled(p) => /\ provider_health'[p] = provider_health[p]
                         /\ \A r \in Slots : ~(InFlight(req'[r]) /\ req'[r].provider = p)
       /\ (N >= 1 /\ \A p \in Names : Exiled(p)) =>
            \A r \in Slots :
                (req'[r] # req[r] /\ req'[r].pc = "done") =>
                   req'[r].reply = Reply(200, <<FallbackText>>, NoImage)]_vars

\* C19 as amended: the same, where "no call in flight" reads "no request in
\* the middle of an attempt on the provider" (its call in flight, or its 200
\* response still being read), and where the requests that return the
\* fallback payload are those with a non-blank message (a blank one is
\* answered "Please type a message.").
C19_NoDecay ==
    [][/\ \A p \in Names : provider_health[p] \in Nat /\ CountStep(p)
       /\ \A p \in Names :
            Settled(p) => /\ provider_health'[p] = provider_health[p]
                          /\ \A r \in Slots : ~InAttempt(req'[r], p)
       /\ (N >= 1 /\ \A p \in Names : Settled(p)) =>
            \A r \in Slots :
                (req'[r] # req[r] /\ req'[r].pc = "done") =>
                   req'[r].reply = IF Enters(r) /\ IsBlank(req'[r].raw)
                                   THEN Reply(400, <<"Please type a message.">>, NoImage)
                                   ELSE Reply(200, <<FallbackText>>, NoImage)]_vars

\* Both providers are above the threshold and a request has returned the
\* fallback payload after two skips, without any upstream call.
C19_Witness ==
    \E r \in Slots :
        /\ N = 2
        /\ \A p \in Names : Settled(p)
        /\ req[r].pc = "done"
        /\ req[r].attempt = 1
        /\ req[r].response = NoResponse
        /\ req[r].reply = Reply(200, <<FallbackText>>, NoImage)

\* C20 as stated: in every reachable state the "health" boolean that the
\* health query reports for a provider is true exactly when a chat request
\* would attempt that provider rather than skip it as unhealthy.
C20_Original ==
    \A i \in 1..N :
        /\ health_route[i].name = PROVIDERS[i]
        /\ health_route[i].health = Eligible(PROVIDERS[i], provider_health)

====
